---- MODULE Spec2Model ----
(***************************************************************************)
(* The match-resolution engine of the match-3 game: GameLogic (grid,       *)
(* match detection, gravity, scoring, special tiles, colour shuffle) and   *)
(* the cascade that GameScene drives with it.                              *)
(*                                                                         *)
(* A grid is a function grid[y][x], y counted from the top row 0, exactly  *)
(* as the source's GameTile[][].  A tile is a record [type, special, id].  *)
(* The fields x, y, falling and matched of GameTile feed only the          *)
(* animations and are not modelled; neither are the TileAnimation lists.   *)
(***************************************************************************)
EXTENDS Integers, Sequences, FiniteSets, Bags, TLC

VARIABLES
    config,     \* the LevelConfig handed to the GameLogic constructor
    grid,       \* the grid an operation works on / gameState.grid
    call,       \* the GameLogic call in progress: its inputs, locals and result
    scene       \* the fields of GameScene and its pending callbacks

vars == <<config, grid, call, scene>>

----------------------------------------------------------------------------
(* Types                                                                   *)

EMPTY == "empty"

\* tile.special of a tile made by createRandomTile: the field is absent
NoSpecial == "undefined"

BOMB == "bomb"

ROCKET_H == "rocket_h"

ROCKET_V == "rocket_v"

RAINBOW == "rainbow"

GRID_WIDTH == config.gridWidth

GRID_HEIGHT == config.gridHeight

TILE_TYPES == config.tileTypes \ {EMPTY, "bomb", "rocket", "rainbow"}

MIN_MATCH_LENGTH == 3

Xs == 0 .. (GRID_WIDTH - 1)

Ys == 0 .. (GRID_HEIGHT - 1)

Pos(x, y) == [x |-> x, y |-> y]

Positions == {Pos(x, y) : x \in Xs, y \in Ys}

Tile(type, special, id) == [type |-> type, special |-> special, id |-> id]

isValidPosition(pos) ==
    pos.x >= 0 /\ pos.x < GRID_WIDTH /\ pos.y >= 0 /\ pos.y < GRID_HEIGHT

\* the one element of a singleton set
Only(S) == CHOOSE e \in S : TRUE

Range(s) == {s[i] : i \in DOMAIN s}

----------------------------------------------------------------------------
(* Match detection                                                         *)

\* The tiles collected by the scan to the right of (startX, y): the start
\* tile and every following tile of the same type, up to the first other.
HorizontalRun(g, startX, y) ==
    [i \in 1 .. Cardinality({k \in 1 .. (GRID_WIDTH - startX) :
                    \A d \in 0 .. (k - 1) : g[y][startX + d].type = g[y][startX].type})
        |-> Pos(startX + i - 1, y)]

VerticalRun(g, x, startY) ==
    [i \in 1 .. Cardinality({k \in 1 .. (GRID_HEIGHT - startY) :
                    \A d \in 0 .. (k - 1) : g[startY + d][x].type = g[startY][x].type})
        |-> Pos(x, startY + i - 1)]

Null == [tiles |-> << >>, type |-> EMPTY, direction |-> "null", length |-> 0,
         special |-> NoSpecial]

MatchResult(tiles, type, direction) ==
    [tiles |-> tiles, type |-> type, direction |-> direction,
     length |-> Len(tiles), special |-> NoSpecial]

findHorizontalMatch(g, startX, y) ==
    IF g[y][startX].type = EMPTY THEN Null
    ELSE Only({IF Len(matchTiles) >= MIN_MATCH_LENGTH
               THEN MatchResult(matchTiles, g[y][startX].type, "horizontal")
               ELSE Null :
               matchTiles \in {HorizontalRun(g, startX, y)}})

findVerticalMatch(g, x, startY) ==
    IF g[startY][x].type = EMPTY THEN Null
    ELSE Only({IF Len(matchTiles) >= MIN_MATCH_LENGTH
               THEN MatchResult(matchTiles, g[startY][x].type, "vertical")
               ELSE Null :
               matchTiles \in {VerticalRun(g, x, startY)}})

\* `${p.x},${p.y}` of one position: the key of the position alone
PosKeyOf(p) == <<p>>

\* match.tiles.map(p => `${p.x},${p.y}`).join('|'): the keys of all the
\* tiles of the match joined into one string.  Two such strings are equal
\* iff they list the same positions in the same order.
JoinedKey(tiles) == tiles

\* One step of either scan loop: acc is [matches, processedPositions].
ScanStep(acc, match) ==
    IF match # Null /\ match.length >= MIN_MATCH_LENGTH
       /\ JoinedKey(match.tiles) \notin acc.processedPositions
    THEN [matches |-> Append(acc.matches, match),
          processedPositions |->
              acc.processedPositions \cup {PosKeyOf(p) : p \in Range(match.tiles)}]
    ELSE acc

\* for (y = 0 .. H-1) for (x = 0 .. W-3): the start positions in loop order
HorizontalStarts ==
    [i \in 1 .. (GRID_HEIGHT * (IF GRID_WIDTH > 2 THEN GRID_WIDTH - 2 ELSE 0)) |->
        Pos((i - 1) % (GRID_WIDTH - 2), (i - 1) \div (GRID_WIDTH - 2))]

\* for (x = 0 .. W-1) for (y = 0 .. H-3)
VerticalStarts ==
    [i \in 1 .. (GRID_WIDTH * (IF GRID_HEIGHT > 2 THEN GRID_HEIGHT - 2 ELSE 0)) |->
        Pos((i - 1) \div (GRID_HEIGHT - 2), (i - 1) % (GRID_HEIGHT - 2))]

RECURSIVE ScanHorizontal(_, _, _)
ScanHorizontal(g, i, acc) ==
    IF i > Len(HorizontalStarts) THEN acc
    ELSE Only({ScanHorizontal(g, i + 1, next) :
               next \in {ScanStep(acc, match) :
                   match \in {findHorizontalMatch(g, HorizontalStarts[i].x,
                                                  HorizontalStarts[i].y)}}})

RECURSIVE ScanVertical(_, _, _)
ScanVertical(g, i, acc) ==
    IF i > Len(VerticalStarts) THEN acc
    ELSE Only({ScanVertical(g, i + 1, next) :
               next \in {ScanStep(acc, match) :
                   match \in {findVerticalMatch(g, VerticalStarts[i].x,
                                                VerticalStarts[i].y)}}})

\* a detector that never runs its vertical scan
findAllMatches_HorizontalOnly(g) ==
    Only({horizontal.matches :
          horizontal \in {ScanHorizontal(g, 1, [matches |-> << >>,
                                                processedPositions |-> {}])}})

findAllMatches(g) ==
    Only({ScanVertical(g, 1, horizontal).matches :
          horizontal \in {ScanHorizontal(g, 1, [matches |-> << >>,
                                                processedPositions |-> {}])}})

----------------------------------------------------------------------------
(* Boards the operations are applied to                                    *)

\* every grid of the configured size whose cells hold a plain tile of one
\* of the given types (what the double loop of initializeGrid can build)
PlainGrids(types) ==
    [Ys -> [Xs -> {Tile(t, NoSpecial, 0) : t \in types}]]

NoCall == [op |-> "none"]

\* no GameScene: GameLogic is exercised on its own
NoScene == [gameStatus |-> "none"]

----------------------------------------------------------------------------
(* MatchSpec: findAllMatches applied to every board of the match         *)
(* configurations                                                         *)

MatchConfigs ==
    {[gridWidth |-> 5, gridHeight |-> 3, tileTypes |-> {"red", "blue"}],
     [gridWidth |-> 3, gridHeight |-> 5, tileTypes |-> {"red", "blue"}]}

MatchInit ==
    /\ config \in MatchConfigs
    /\ grid \in PlainGrids(TILE_TYPES)
    /\ call = NoCall
    /\ scene = NoScene

CallFindAllMatches ==
    /\ call.op = "none"
    /\ call' = [op |-> "findAllMatches", matches |-> findAllMatches(grid)]
    /\ UNCHANGED <<config, grid, scene>>

MatchNext == CallFindAllMatches

MatchSpec == MatchInit /\ [][MatchNext]_vars

\* The maximal runs of a board: the horizontal (vertical) sequences of at
\* least three equal non-empty tiles that cannot be extended at either end.
MaximalHorizontalRuns(g) ==
    {r \in {HorizontalRun(g, x, y) : x \in Xs, y \in Ys} :
        /\ Len(r) >= MIN_MATCH_LENGTH
        /\ g[r[1].y][r[1].x].type # EMPTY
        /\ (r[1].x = 0 \/ g[r[1].y][r[1].x - 1].type # g[r[1].y][r[1].x].type)}

MaximalVerticalRuns(g) ==
    {r \in {VerticalRun(g, x, y) : x \in Xs, y \in Ys} :
        /\ Len(r) >= MIN_MATCH_LENGTH
        /\ g[r[1].y][r[1].x].type # EMPTY
        /\ (r[1].y = 0 \/ g[r[1].y - 1][r[1].x].type # g[r[1].y][r[1].x].type)}

MatchesOf(ms, direction) ==
    {i \in DOMAIN ms : ms[i].direction = direction}

\* C1: findAllMatches reports each maximal run exactly once, with its full
\* length, and reports nothing else (no match for a sub-run of a longer run).
C1_MaximalRunsOnce ==
    call.op = "findAllMatches" =>
        /\ \A i \in MatchesOf(call.matches, "horizontal") :
              call.matches[i].tiles \in MaximalHorizontalRuns(grid)
        /\ \A i \in MatchesOf(call.matches, "vertical") :
              call.matches[i].tiles \in MaximalVerticalRuns(grid)
        /\ \A r \in MaximalHorizontalRuns(grid) :
              Cardinality({i \in MatchesOf(call.matches, "horizontal") :
                              call.matches[i].tiles = r}) = 1
        /\ \A r \in MaximalVerticalRuns(grid) :
              Cardinality({i \in MatchesOf(call.matches, "vertical") :
                              call.matches[i].tiles = r}) = 1

----------------------------------------------------------------------------
(* Gravity                                                                 *)

\* grid.map(row => row[x]): the column from the top row to the bottom row
getColumn(g, x) == [i \in 1 .. GRID_HEIGHT |-> g[i - 1][x]]

IsNonEmpty(tile) == tile.type # EMPTY

\* a column filter that keeps the cleared cells
nonEmptyTiles_KeepsCleared(g, x) == getColumn(g, x)

nonEmptyTiles(g, x) == SelectSeq(getColumn(g, x), IsNonEmpty)

\* createRandomTile(x, y) with the outcome of its random draw and its id
createRandomTile(randomType, id) == Tile(randomType, NoSpecial, id)

\* the cells for which applyGravity calls createRandomTile
NewCells(g) ==
    {p \in Positions : GRID_HEIGHT - 1 - p.y >= Len(nonEmptyTiles(g, p.x))}

\* a gravity that puts the first surviving tile into every surviving cell
applyGravity_RepeatsFirstTile(g, newTile) ==
    [y \in Ys |-> [x \in Xs |->
        LET tileIndex == GRID_HEIGHT - 1 - y
        IN  IF tileIndex < Len(nonEmptyTiles(g, x))
            THEN nonEmptyTiles(g, x)[1]
            ELSE newTile[Pos(x, y)]]]

\* applyGravity(grid).grid; newTile[p] is the tile createRandomTile returns
\* for cell p.  Cell y (from the bottom, tileIndex = H - 1 - y) receives
\* nonEmptyTiles[tileIndex] (0-based), else a new tile.
applyGravity(g, newTile) ==
    [y \in Ys |-> [x \in Xs |->
        LET tileIndex == GRID_HEIGHT - 1 - y
        IN  IF tileIndex < Len(nonEmptyTiles(g, x))
            THEN nonEmptyTiles(g, x)[tileIndex + 1]
            ELSE newTile[Pos(x, y)]]]

----------------------------------------------------------------------------
(* GravitySpec: applyGravity applied to every grid of the gravity          *)
(* configuration, cleared cells included, for every outcome of the draws   *)

GravityConfigs ==
    {[gridWidth |-> 2, gridHeight |-> 3, tileTypes |-> {"red", "blue"}]}

\* the id of the tile that starts at (x, y): ids are unique
IdAt(x, y) == y * GRID_WIDTH + x + 1

\* the id of a tile created for (x, y): different from every starting id
FreshIdAt(x, y) == GRID_WIDTH * GRID_HEIGHT + IdAt(x, y)

\* what a cell can hold before gravity: a cleared cell, a plain tile or a
\* special tile (here a bomb)
GravityCells ==
    {Tile(EMPTY, NoSpecial, 0)} \cup
    {Tile(t, s, 0) : t \in TILE_TYPES, s \in {NoSpecial, BOMB}}

WithIds(g) ==
    [y \in Ys |-> [x \in Xs |->
        Tile(g[y][x].type, g[y][x].special, IdAt(x, y))]]

GravityInit ==
    /\ config \in GravityConfigs
    /\ \E g \in [Ys -> [Xs -> GravityCells]] : grid = WithIds(g)
    /\ call = NoCall
    /\ scene = NoScene

CallApplyGravity ==
    /\ call.op = "none"
    /\ \E draw \in [NewCells(grid) -> TILE_TYPES] :
          call' = [op |-> "applyGravity",
                   grid |-> applyGravity(grid,
                       [p \in NewCells(grid) |->
                           createRandomTile(draw[p], FreshIdAt(p.x, p.y))])]
    /\ UNCHANGED <<config, grid, scene>>

GravityNext == CallApplyGravity

GravitySpec == GravityInit /\ [][GravityNext]_vars

\* the ids of the tiles of column x of g that satisfy Keep, top to bottom
ColumnIds(g, x, Keep(_)) ==
    LET kept == SelectSeq(getColumn(g, x), Keep)
    IN  [i \in DOMAIN kept |-> kept[i].id]

StartIds == {IdAt(x, y) : x \in Xs, y \in Ys}

IsSurvivor(tile) == tile.id \in StartIds

\* C2: applyGravity keeps the top-to-bottom order of the non-empty tiles of
\* every column; the survivors take the bottom cells, new tiles the cells
\* above them (so a column without an empty cell is unchanged).
C2_GravityKeepsOrder ==
    call.op = "applyGravity" =>
        \A x \in Xs :
            LET k == Len(nonEmptyTiles(grid, x))
            IN  /\ ColumnIds(call.grid, x, IsSurvivor) = ColumnIds(grid, x, IsNonEmpty)
                /\ \A y \in Ys :
                      IsSurvivor(call.grid[y][x]) <=> y >= GRID_HEIGHT - k

\* C7: applyGravity keeps every non-empty tile exactly once, unchanged and
\* in its column, and creates exactly one new (non-empty) tile per empty
\* cell of the column.
C7_GravityConservation ==
    call.op = "applyGravity" =>
        \A x \in Xs :
            /\ \A i \in DOMAIN nonEmptyTiles(grid, x) :
                  /\ Cardinality({p \in Positions :
                        call.grid[p.y][p.x].id = nonEmptyTiles(grid, x)[i].id}) = 1
                  /\ \E y \in Ys : call.grid[y][x] = nonEmptyTiles(grid, x)[i]
            /\ Cardinality({y \in Ys : IsSurvivor(call.grid[y][x])})
                  = Cardinality({y \in Ys : IsNonEmpty(grid[y][x])})
            /\ Cardinality({y \in Ys : ~IsSurvivor(call.grid[y][x])})
                  = Cardinality({y \in Ys : ~IsNonEmpty(grid[y][x])})
            /\ \A y \in Ys : IsNonEmpty(call.grid[y][x])

\* a column with two tiles and an empty cell has been compacted
C7_Witness ==
    /\ call.op = "applyGravity"
    /\ \E x \in Xs :
          /\ Len(nonEmptyTiles(grid, x)) = 2
          /\ grid[GRID_HEIGHT - 1][x].type = EMPTY
          /\ \E y \in Ys : grid[y][x].special = BOMB

----------------------------------------------------------------------------
(* Special tile creation and scoring                                       *)

NoSpecialInfo == [position |-> Pos(-1, -1), special |-> NoSpecial]

\* tiles[Math.floor(tiles.length / 2)] of a 0-based array
CenterPos(tiles) == tiles[(Len(tiles) \div 2) + 1]

detectSpecialTileCreation(match) ==
    IF match.length >= 5
    THEN [position |-> CenterPos(match.tiles),
          special |-> IF match.direction = "horizontal" THEN ROCKET_H ELSE ROCKET_V]
    ELSE IF match.length = 4
    THEN [position |-> CenterPos(match.tiles), special |-> BOMB]
    ELSE NoSpecialInfo

\* scoreConfig.basePoints[match.type] || 10
basePoints(type) == 10

\* scoreConfig.matchMultipliers[match.length] || 1, in tenths (2.5 is 25)
matchMultiplierTenths(length) ==
    CASE length = 3 -> 10
      [] length = 4 -> 25
      [] length = 5 -> 50
      [] length = 6 -> 100
      [] length = 7 -> 200
      [] OTHER -> 10

\* SPECIAL_BONUSES[match.special] || 0: the table has the keys bomb, rocket
\* and rainbow
SPECIAL_BONUSES(special) ==
    CASE special = "bomb" -> 200
      [] special = "rocket" -> 300
      [] special = "rainbow" -> 500
      [] OTHER -> 0

RECURSIVE Pow(_, _)
Pow(b, e) == IF e = 0 THEN 1 ELSE b * Pow(b, e - 1)

\* Math.floor(basePoints * length * multiplier * 1.5^comboCount) plus the
\* creation bonus.  The factors are dyadic rationals far below 2^53, so the
\* floating-point product is exact: 1.5^c = 3^c / 2^c, multiplier = tenths/10.
matchScore(match, comboCount) ==
    ((basePoints(match.type) * match.length * matchMultiplierTenths(match.length)
        * Pow(3, comboCount)) \div (10 * Pow(2, comboCount)))
    + (IF match.special # NoSpecial THEN SPECIAL_BONUSES(match.special) ELSE 0)

RECURSIVE SumScores(_, _, _)
SumScores(matches, i, comboCount) ==
    IF i > Len(matches) THEN 0
    ELSE matchScore(matches[i], comboCount) + SumScores(matches, i + 1, comboCount)

RECURSIVE SumUnfloored(_, _, _)
SumUnfloored(matches, i, comboCount) ==
    IF i > Len(matches) THEN 0
    ELSE basePoints(matches[i].type) * matches[i].length
            * matchMultiplierTenths(matches[i].length) * Pow(3, comboCount)
         + SumUnfloored(matches, i + 1, comboCount)

RECURSIVE SumBonuses(_, _)
SumBonuses(matches, i) ==
    IF i > Len(matches) THEN 0
    ELSE (IF matches[i].special # NoSpecial
          THEN SPECIAL_BONUSES(matches[i].special) ELSE 0)
         + SumBonuses(matches, i + 1)

\* a score that adds up the match scores and floors the sum
calculateScore_FloorsTheSum(matches, comboCount, specialActivations) ==
    (SumUnfloored(matches, 1, comboCount) \div (10 * Pow(2, comboCount)))
    + SumBonuses(matches, 1)
    + (IF specialActivations > 0 THEN specialActivations * 150 ELSE 0)

calculateScore(matches, comboCount, specialActivations) ==
    SumScores(matches, 1, comboCount)
    + (IF specialActivations > 0 THEN specialActivations * 150 ELSE 0)

----------------------------------------------------------------------------
(* ScoreSpec: calculateScore applied to the match lists checkForMatches    *)
(* can hand to it                                                          *)

\* the longest run of the default 8x8 board
MaxRunLength == 8

MaxCombo == 3

MaxActivations == 2

\* a match as checkForMatches passes it on: match.special is what
\* detectSpecialTileCreation returned for it
ScoredMatches ==
    {[m EXCEPT !.special = detectSpecialTileCreation(m).special] :
        m \in {MatchResult([i \in 1 .. n |-> IF d = "horizontal" THEN Pos(i - 1, 0)
                                                                ELSE Pos(0, i - 1)],
                           t, d) :
                  n \in MIN_MATCH_LENGTH .. MaxRunLength,
                  t \in {"red", "blue"},
                  d \in {"horizontal", "vertical"}}}

ScoreInit ==
    /\ config = [gridWidth |-> MaxRunLength, gridHeight |-> MaxRunLength,
                 tileTypes |-> {"red", "blue"}]
    /\ grid = << >>
    /\ \E m1 \in ScoredMatches, rest \in {<< >>} \cup {<<m2>> : m2 \in ScoredMatches},
          c \in 0 .. MaxCombo, a \in 0 .. MaxActivations :
          call = [op |-> "none", matches |-> <<m1>> \o rest, comboCount |-> c,
                  specialActivations |-> a]
    /\ scene = NoScene

CallCalculateScore ==
    /\ call.op = "none"
    /\ call' = [call EXCEPT !.op = "calculateScore"] @@
               [totalScore |-> calculateScore(call.matches, call.comboCount,
                                              call.specialActivations)]
    /\ UNCHANGED <<config, grid, scene>>

ScoreNext == CallCalculateScore

ScoreSpec == ScoreInit /\ [][ScoreNext]_vars

\* the length multiplier of the scoring rule, in tenths: 1, 2.5, 5, 10 and
\* 20 for every length from 7 on
RuleMultiplierTenths(length) ==
    CASE length = 3 -> 10
      [] length = 4 -> 25
      [] length = 5 -> 50
      [] length = 6 -> 100
      [] OTHER -> 200

SingleMatchCall ==
    call.op = "calculateScore" /\ Len(call.matches) = 1 /\ call.specialActivations = 0

\* C9: one match of length L (3 <= L <= 8) with base points b at combo depth
\* d and no special scores floor(b * L * mult(L) * 1.5^d), where mult is
\* 1, 2.5, 5, 10 for L = 3..6 and 20 for every L >= 7.  (The creation bonus
\* of the match, if any, is taken off first.)
C9_LengthMultipliers ==
    SingleMatchCall =>
        LET m == call.matches[1]
        IN  call.totalScore
              - (IF m.special # NoSpecial THEN SPECIAL_BONUSES(m.special) ELSE 0)
            = (10 * m.length * RuleMultiplierTenths(m.length) * Pow(3, call.comboCount))
                  \div (10 * Pow(2, call.comboCount))

\* floor(10 * length * multiplier * 1.5^comboCount) of every match, floored
\* match by match and then added up, plus the creation bonuses
RECURSIVE FlooredSum(_, _, _)
FlooredSum(matches, i, comboCount) ==
    IF i > Len(matches) THEN 0
    ELSE ((10 * matches[i].length * matchMultiplierTenths(matches[i].length)
              * Pow(3, comboCount)) \div (10 * Pow(2, comboCount)))
         + (IF matches[i].special # NoSpecial
            THEN SPECIAL_BONUSES(matches[i].special) ELSE 0)
         + FlooredSum(matches, i + 1, comboCount)

\* C12: calculateScore is a pure function of (matches, comboCount,
\* specialActivations): the call leaves the engine state and its arguments
\* alone and its result is determined by the arguments; every match score is
\* floored before the scores are added; one 3-match scores 30 at combo depth
\* 0 and 45 at combo depth 1.
C12_PureFlooredScore ==
    /\ grid = << >>
    /\ scene = NoScene
    /\ call.matches \in Seq(ScoredMatches)
    /\ call.op = "calculateScore" =>
          /\ call.totalScore
                = FlooredSum(call.matches, 1, call.comboCount)
                  + 150 * call.specialActivations
          /\ (SingleMatchCall /\ call.matches[1].length = 3 /\ call.comboCount = 0)
                => call.totalScore = 30
          /\ (SingleMatchCall /\ call.matches[1].length = 3 /\ call.comboCount = 1)
                => call.totalScore = 45

\* two 3-matches scored at combo depth 2: 67.5 each, floored to 67 + 67
C12_Witness ==
    /\ call.op = "calculateScore"
    /\ Len(call.matches) = 2
    /\ call.matches[1].length = 3
    /\ call.matches[2].length = 3
    /\ call.comboCount = 2
    /\ call.specialActivations = 0
    /\ call.totalScore = 134

\* the flat creation bonus of the scoring rule
RuleCreationBonus(special) ==
    CASE special = BOMB -> 200
      [] special \in {ROCKET_H, ROCKET_V} -> 300
      [] special = RAINBOW -> 500
      [] OTHER -> 0

\* C10: a match that created a special tile scores its match score plus the
\* flat creation bonus: 200 for a bomb, 300 for a rocket, 500 for a rainbow.
C10_CreationBonus ==
    SingleMatchCall =>
        LET m == call.matches[1]
        IN  call.totalScore
            = ((basePoints(m.type) * m.length * matchMultiplierTenths(m.length)
                  * Pow(3, call.comboCount)) \div (10 * Pow(2, call.comboCount)))
              + RuleCreationBonus(m.special)

----------------------------------------------------------------------------
(* Board creation, the repair loop and the colour shuffle                  *)

maxAttempts == 50

\* the positions named by the matches of a detection
MatchedPositions(matches) ==
    UNION {Range(matches[i].tiles) : i \in DOMAIN matches}

\* matches.forEach(match => match.tiles.forEach(pos =>
\*     grid[pos.y][pos.x] = createRandomTile(pos.x, pos.y))):
\* every matched position ends with the tile of its (last) draw
ReplaceTiles(g, newTile) ==
    [y \in Ys |-> [x \in Xs |->
        IF Pos(x, y) \in DOMAIN newTile THEN newTile[Pos(x, y)] ELSE g[y][x]]]

\* the tiles shuffleTileColors collects: non-empty and without a special
IsRegular(tile) == tile.type # EMPTY /\ tile.special = NoSpecial

RegularPositions(g) == {p \in Positions : IsRegular(g[p.y][p.x])}

ColorCount(g, P, t) == Cardinality({p \in P : g[p.y][p.x].type = t})

\* shuffleArray(colors) followed by the reassignment loop: Fisher-Yates can
\* produce every permutation of the collected colours, so the regular
\* positions can receive every colouring with the same number of tiles of
\* each colour; every other field and every other tile is kept.
ShuffleOutcomes(g) ==
    {[y \in Ys |-> [x \in Xs |->
        IF Pos(x, y) \in RegularPositions(g)
        THEN [g[y][x] EXCEPT !.type = c[Pos(x, y)]]
        ELSE g[y][x]]] :
     c \in {d \in [RegularPositions(g) -> {g[p.y][p.x].type : p \in RegularPositions(g)}] :
               \A t \in {g[p.y][p.x].type : p \in RegularPositions(g)} :
                   Cardinality({p \in RegularPositions(g) : d[p] = t})
                       = ColorCount(g, RegularPositions(g), t)}}

\* the special kind of every cell (what the shuffle is to preserve)
SpecialLayout(g) ==
    [p \in Positions |->
        IF g[p.y][p.x].type = EMPTY THEN EMPTY ELSE g[p.y][p.x].special]

----------------------------------------------------------------------------
(* CreateSpec: initializeGrid and shuffleTileColors, with the loop of      *)
(* removeInitialMatches taken one iteration at a time                      *)

CreateConfigs ==
    {[gridWidth |-> 2, gridHeight |-> 3, tileTypes |-> {"red", "blue"}],
     [gridWidth |-> 4, gridHeight |-> 2, tileTypes |-> {"red", "blue"}]}

\* the middle position of a run of four in a row (where a bomb is created),
\* if the board is wide enough for one
BombColumns == IF GRID_WIDTH >= 4 THEN {2} ELSE {}

\* the boards a game can hold when the colour swap fires: no empty cell,
\* plain tiles, and bombs where a run of four can have left one
GameGrids ==
    {[y \in Ys |-> [x \in Xs |->
        IF x \in BombColumns /\ y \in bombs THEN [g[y][x] EXCEPT !.special = BOMB]
        ELSE g[y][x]]] :
     g \in PlainGrids(TILE_TYPES), bombs \in SUBSET Ys}

CreateInit ==
    /\ config \in CreateConfigs
    /\ grid \in GameGrids
    /\ call = NoCall
    /\ scene = NoScene

\* initializeGrid up to its call of removeInitialMatches: the double loop of
\* createRandomTile can build every plain grid
CallInitializeGrid ==
    /\ call.op = "none"
    /\ grid' \in PlainGrids(TILE_TYPES)
    /\ call' = [op |-> "initializeGrid", pc |-> "loop", hasMatches |-> TRUE,
                attempts |-> 0, layout |-> SpecialLayout(grid')]
    /\ UNCHANGED <<config, scene>>

\* shuffleTileColors up to its call of removeInitialMatches; call.layout
\* keeps the special kinds of the grid the caller passed
CallShuffleTileColors ==
    /\ call.op = "none"
    /\ grid' \in ShuffleOutcomes(grid)
    /\ call' = [op |-> "shuffleTileColors", pc |-> "loop", hasMatches |-> TRUE,
                attempts |-> 0, layout |-> SpecialLayout(grid)]
    /\ UNCHANGED <<config, scene>>

\* a loop without the bound on attempts: while (hasMatches)
RemoveInitialMatchesStep_Unbounded ==
    /\ call.op \in {"initializeGrid", "shuffleTileColors"}
    /\ call.pc = "loop"
    /\ call.hasMatches
    /\ LET matches == findAllMatches(grid)
       IN  /\ call' = [call EXCEPT !.hasMatches = (Len(matches) > 0),
                                    !.attempts = call.attempts + 1]
           /\ IF Len(matches) > 0
              THEN \E draw \in [MatchedPositions(matches) -> TILE_TYPES] :
                      grid' = ReplaceTiles(grid,
                          [p \in MatchedPositions(matches) |->
                              createRandomTile(draw[p], 0)])
              ELSE grid' = grid
    /\ UNCHANGED <<config, scene>>

\* one iteration of while (hasMatches && attempts < maxAttempts)
RemoveInitialMatchesStep ==
    /\ call.op \in {"initializeGrid", "shuffleTileColors"}
    /\ call.pc = "loop"
    /\ call.hasMatches /\ call.attempts < maxAttempts
    /\ LET matches == findAllMatches(grid)
       IN  /\ call' = [call EXCEPT !.hasMatches = (Len(matches) > 0),
                                    !.attempts = call.attempts + 1]
           /\ IF Len(matches) > 0
              THEN \E draw \in [MatchedPositions(matches) -> TILE_TYPES] :
                      grid' = ReplaceTiles(grid,
                          [p \in MatchedPositions(matches) |->
                              createRandomTile(draw[p], 0)])
              ELSE grid' = grid
    /\ UNCHANGED <<config, scene>>

\* the loop condition fails: removeInitialMatches and its caller return
RemoveInitialMatchesReturn ==
    /\ call.op \in {"initializeGrid", "shuffleTileColors"}
    /\ call.pc = "loop"
    /\ ~(call.hasMatches /\ call.attempts < maxAttempts)
    /\ call' = [call EXCEPT !.pc = "returned"]
    /\ UNCHANGED <<config, grid, scene>>

CreateNext ==
    \/ CallInitializeGrid
    \/ CallShuffleTileColors
    \/ RemoveInitialMatchesStep
    \/ RemoveInitialMatchesReturn

CreateSpec == CreateInit /\ [][CreateNext]_vars

Returned == call.op \in {"initializeGrid", "shuffleTileColors"} /\ call.pc = "returned"

HasRun(g) == MaximalHorizontalRuns(g) # {} \/ MaximalVerticalRuns(g) # {}

C4_ShufflePreservesLayout ==
    (Returned /\ call.op = "shuffleTileColors") =>
        SpecialLayout(grid) = call.layout

----------------------------------------------------------------------------
(* Clearing tiles, creating and activating special tiles                   *)

EmptyTile == Tile(EMPTY, NoSpecial, 0)

removeTilesAtPositions(g, positions) ==
    [y \in Ys |-> [x \in Xs |->
        IF Pos(x, y) \in Range(positions) THEN EmptyTile ELSE g[y][x]]]

RECURSIVE RemoveEach(_, _, _)
RemoveEach(g, matches, i) ==
    IF i > Len(matches) THEN g
    ELSE RemoveEach(removeTilesAtPositions(g, matches[i].tiles), matches, i + 1)

removeMatches(g, matches) == RemoveEach(g, matches, 1)

createSpecialTile(g, position, special, tileType) ==
    IF ~isValidPosition(position) THEN g
    ELSE [g EXCEPT ![position.y][position.x] = Tile(tileType, special, 0)]

\* checkForMatches, matches.forEach: match.special = specialInfo.special
MarkSpecials(matches) ==
    [i \in DOMAIN matches |->
        [matches[i] EXCEPT !.special = detectSpecialTileCreation(matches[i]).special]]

\* checkForMatches, matches.forEach: the list specialTilesToCreate
RECURSIVE SpecialTilesToCreate(_, _)
SpecialTilesToCreate(matches, i) ==
    IF i > Len(matches) THEN << >>
    ELSE (IF detectSpecialTileCreation(matches[i]) # NoSpecialInfo
          THEN <<[position |-> detectSpecialTileCreation(matches[i]).position,
                  special |-> detectSpecialTileCreation(matches[i]).special,
                  tileType |-> matches[i].type]>>
          ELSE << >>) \o SpecialTilesToCreate(matches, i + 1)

\* checkForMatches, specialTilesToCreate.forEach(createSpecialTile)
RECURSIVE CreateSpecialTiles(_, _, _)
CreateSpecialTiles(g, toCreate, i) ==
    IF i > Len(toCreate) THEN g
    ELSE CreateSpecialTiles(
            createSpecialTile(g, toCreate[i].position, toCreate[i].special,
                              toCreate[i].tileType),
            toCreate, i + 1)

\* checkForMatches from "Remove matched tiles" to "Create special tiles":
\* the grid handed to applyGravity
ClearAndCreate(g, matches) ==
    CreateSpecialTiles(removeMatches(g, matches), SpecialTilesToCreate(matches, 1), 1)

isSpecialTile(tile) == tile.special # NoSpecial /\ tile.special # "none"

\* for dy = -1..1, for dx = -1..1: the nine offsets in loop order
BombOffsets ==
    [i \in 1 .. 9 |-> [dx |-> ((i - 1) % 3) - 1, dy |-> ((i - 1) \div 3) - 1]]

\* an activation whose bomb does not clip its block to the board
activateSpecialTile_Unclipped(g, position) ==
    IF ~isValidPosition(position) \/ ~(g[position.y][position.x].special # NoSpecial)
    THEN << >>
    ELSE LET special == g[position.y][position.x].special
         IN  CASE special = BOMB ->
                    [i \in 1 .. 9 |-> Pos(position.x + BombOffsets[i].dx,
                                          position.y + BombOffsets[i].dy)]
               [] special = ROCKET_H ->
                    [i \in 1 .. GRID_WIDTH |-> Pos(i - 1, position.y)]
               [] special = ROCKET_V ->
                    [i \in 1 .. GRID_HEIGHT |-> Pos(position.x, i - 1)]
               [] special = RAINBOW -> <<position>>
               [] OTHER -> << >>

activateSpecialTile(g, position) ==
    IF ~isValidPosition(position) \/ ~(g[position.y][position.x].special # NoSpecial)
    THEN << >>
    ELSE LET special == g[position.y][position.x].special
         IN  CASE special = BOMB ->
                    SelectSeq([i \in 1 .. 9 |-> Pos(position.x + BombOffsets[i].dx,
                                                    position.y + BombOffsets[i].dy)],
                              isValidPosition)
               [] special = ROCKET_H ->
                    [i \in 1 .. GRID_WIDTH |-> Pos(i - 1, position.y)]
               [] special = ROCKET_V ->
                    [i \in 1 .. GRID_HEIGHT |-> Pos(position.x, i - 1)]
               [] special = RAINBOW -> <<position>>
               [] OTHER -> << >>

----------------------------------------------------------------------------
(* IterationSpec: the grid work of one checkForMatches iteration (detect,  *)
(* detectSpecialTileCreation, removeMatches, createSpecialTile,            *)
(* applyGravity) applied to every plain board with a match                 *)

IterationConfigs ==
    {[gridWidth |-> 5, gridHeight |-> 2, tileTypes |-> {"red", "blue"}]}

IterationInit ==
    /\ config \in IterationConfigs
    /\ grid \in PlainGrids(TILE_TYPES)
    /\ call = NoCall
    /\ scene = NoScene

CallCheckForMatchesIteration ==
    /\ call.op = "none"
    /\ findAllMatches(grid) # << >>
    /\ LET matches == MarkSpecials(findAllMatches(grid))
           cleared == ClearAndCreate(grid, matches)
       IN  \E draw \in [NewCells(cleared) -> TILE_TYPES] :
              call' = [op |-> "checkForMatches",
                       matches |-> matches,
                       specialTilesToCreate |-> SpecialTilesToCreate(matches, 1),
                       created |-> cleared,
                       grid |-> applyGravity(cleared,
                           [p \in NewCells(cleared) |-> createRandomTile(draw[p], 0)])]
    /\ UNCHANGED <<config, grid, scene>>

IterationNext == CallCheckForMatchesIteration

IterationSpec == IterationInit /\ [][IterationNext]_vars

\* the board has exactly one maximal run, horizontal and of length n
OnlyRunIsHorizontal(g, n) ==
    /\ MaximalVerticalRuns(g) = {}
    /\ Cardinality(MaximalHorizontalRuns(g)) = 1
    /\ \A r \in MaximalHorizontalRuns(g) : Len(r) = n

SpecialsOn(g) == {p \in Positions : isSpecialTile(g[p.y][p.x])}

\* C6: an iteration on a board whose only run is a horizontal run of 4
\* creates exactly one special tile, a bomb at a middle position of the run,
\* and no rocket; on a board whose only run is a horizontal run of 5 it
\* creates exactly one special tile, a row rocket, and no bomb.
C6_CreationThresholds ==
    call.op = "checkForMatches" =>
        /\ OnlyRunIsHorizontal(grid, 4) =>
              /\ Len(call.specialTilesToCreate) = 1
              /\ call.specialTilesToCreate[1].special = BOMB
              /\ \E r \in MaximalHorizontalRuns(grid) :
                    call.specialTilesToCreate[1].position \in {r[2], r[3]}
              /\ Cardinality(SpecialsOn(call.created)) = 1
              /\ Cardinality(SpecialsOn(call.grid)) = 1
        /\ OnlyRunIsHorizontal(grid, 5) =>
              /\ Len(call.specialTilesToCreate) = 1
              /\ call.specialTilesToCreate[1].special = ROCKET_H
              /\ Cardinality(SpecialsOn(call.created)) = 1
              /\ Cardinality(SpecialsOn(call.grid)) = 1

----------------------------------------------------------------------------
(* Swaps and the outcomes of the repair loop                               *)

Abs(n) == IF n < 0 THEN -n ELSE n

canSwapTiles(pos1, pos2) ==
    \/ (Abs(pos1.x - pos2.x) = 1 /\ Abs(pos1.y - pos2.y) = 0)
    \/ (Abs(pos1.x - pos2.x) = 0 /\ Abs(pos1.y - pos2.y) = 1)

swapTiles(g, pos1, pos2) ==
    IF ~isValidPosition(pos1) \/ ~isValidPosition(pos2) THEN g
    ELSE [y \in Ys |-> [x \in Xs |->
            IF Pos(x, y) = pos1 THEN g[pos2.y][pos2.x]
            ELSE IF Pos(x, y) = pos2 THEN g[pos1.y][pos1.x]
            ELSE g[y][x]]]

wouldCreateMatches(g, pos1, pos2) ==
    \E testGrid \in {swapTiles(g, pos1, pos2)} : Len(findAllMatches(testGrid)) > 0

hasPossibleMoves(g) ==
    \E pos1 \in Positions :
        \E pos2 \in {Pos(pos1.x + 1, pos1.y), Pos(pos1.x, pos1.y + 1)} :
            isValidPosition(pos2) /\ wouldCreateMatches(g, pos1, pos2)

\* for (y = 0 .. H-1) for (x = 0 .. W-1): every position in loop order
RowMajor ==
    [i \in 1 .. (GRID_WIDTH * GRID_HEIGHT) |->
        Pos((i - 1) % GRID_WIDTH, (i - 1) \div GRID_WIDTH)]

\* the boards one pass of the repair loop body can turn g into: every
\* matched position receives a new random tile
Reroll(g) ==
    UNION {{ReplaceTiles(g, newTile) :
               newTile \in {[p \in matched |-> createRandomTile(draw[p], 0)] :
                              draw \in [matched -> TILE_TYPES]}} :
           matched \in {MatchedPositions(findAllMatches(g))}}

\* one pass of the repair loop from every board of frontier that has a match
RerollAll(frontier) ==
    UNION {Reroll(b) : b \in {f \in frontier : Len(findAllMatches(f)) > 0}}

\* the boards the repair loop can hold after 1 .. maxAttempts passes, each
\* pass starting from a board with a match: seen are the boards reached so
\* far, frontier those reached for the first time by the last pass
RECURSIVE RepairReach(_, _, _)
RepairReach(seen, frontier, attempts) ==
    IF frontier = {} \/ attempts = maxAttempts THEN seen
    ELSE UNION {RepairReach(st.seen, st.frontier, attempts + 1) :
                st \in {[seen |-> seen \cup next, frontier |-> next \ seen] :
                        next \in {RerollAll(frontier)}}}

\* the boards removeInitialMatches can return when it is handed one of the
\* boards of start.  A board with a match can be re-rolled into itself, so
\* a board reached after k passes is also reached after every later pass up
\* to the last: the loop returns its argument when that has no match, and
\* otherwise any board reached within maxAttempts passes, with or without a
\* match.
removeInitialMatches(start) ==
    {g \in start : Len(findAllMatches(g)) = 0}
    \cup RepairReach({}, {g \in start : Len(findAllMatches(g)) > 0}, 0)

\* the boards initializeGrid() can return: removeInitialMatches applied to
\* the boards of the random fill.  These are all the plain boards again (a
\* board without a match is returned as it is, one with a match can be
\* re-rolled into itself by every pass).
initializeGrid == PlainGrids(TILE_TYPES)

\* initializeGrid is what removeInitialMatches makes of the random fill
InitializeGridIsRepairedFill ==
    initializeGrid = removeInitialMatches(PlainGrids(TILE_TYPES))

\* the boards shuffleTileColors(g).grid can be
shuffleTileColors(g) ==
    UNION {removeInitialMatches(shuffled) : shuffled \in {ShuffleOutcomes(g)}}

----------------------------------------------------------------------------
(* GameScene: one game, from create() to the end of the level.  Every      *)
(* action is one run of the JavaScript event loop: a pointer event, a      *)
(* timer callback, or the continuation of an await when its animation has  *)
(* completed.  Sprites, sounds, texts, totalMatches and the achievement    *)
(* statistics do not feed back into the fields modelled here.  The restart *)
(* of the scene from the end-of-level screens is outside the model.        *)

COLOR_SWAP_THRESHOLD == 3

\* comboCount is recorded up to ComboCap ("ComboCap or more")
ComboCap == 2

\* pending checkForMatches timers at which a further swap is still modelled
MaxTimers == 2

\* how far below zero the model follows gameState.moves
MaxOverdraft == 1

\* invalid-swap animations in flight at the same time
MaxInvalidSwaps == 1

Min(a, b) == IF a < b THEN a ELSE b

\* gameState.selectedTile = null
NoTile == Pos(-1, -1)

\* an async method suspended at an await: the awaited animation and the
\* locals its continuation uses
Task(kind, matches, positions) ==
    [kind |-> kind, matches |-> matches, positions |-> positions]

TasksOf(kind) == {t \in BagToSet(scene.tasks) : t.kind = kind}

Suspend(tasks, t) == tasks (+) SetToBag({t})

Resume(tasks, t) == tasks (-) SetToBag({t})

\* a row wide enough for bombs and rockets, and a column high enough for
\* bombs, in which tiles fall
LevelConfigs ==
    {[gridWidth |-> 5, gridHeight |-> 1, tileTypes |-> {"red", "blue"},
      targetScore |-> 60, maxMoves |-> 2],
     [gridWidth |-> 1, gridHeight |-> 4, tileTypes |-> {"red", "blue"},
      targetScore |-> 60, maxMoves |-> 2]}

\* init(), initializeGameState() and create() with startNewGame()
Init ==
    /\ config \in LevelConfigs
    /\ grid \in initializeGrid
    /\ call = NoCall
    /\ scene = [isAnimating |-> FALSE,
                comboCount |-> 0,
                matchesSinceColorSwap |-> 0,
                specialActivations |-> 0,
                score |-> 0,
                moves |-> config.maxMoves,
                gameStatus |-> "playing",
                selectedTile |-> NoTile,
                tasks |-> EmptyBag,
                timers |-> 0,       \* setTimeout(checkForMatches) callbacks pending
                resolving |-> FALSE] \* a swap was accepted and no
                                     \* checkForMatches call has yet found
                                     \* the board free of matches

\* a handler that does not look at isAnimating
InputAccepted_IgnoresAnimating == scene.gameStatus = "playing"

\* the 'gameobjectdown' handler lets the click through
InputAccepted == ~scene.isAnimating /\ scene.gameStatus = "playing"

\* handleTileClick without a selected tile: selectTile
SelectTile ==
    /\ InputAccepted
    /\ scene.selectedTile = NoTile
    /\ \E position \in Positions :
          scene' = [scene EXCEPT !.selectedTile = position]
    /\ UNCHANGED <<config, grid, call>>

\* attemptSwap: the tiles are not adjacent
AttemptSwapNotAdjacent ==
    /\ InputAccepted
    /\ scene.selectedTile # NoTile
    /\ {pos2 \in Positions : ~canSwapTiles(scene.selectedTile, pos2)} # {}
    /\ scene' = [scene EXCEPT !.selectedTile = NoTile]
    /\ UNCHANGED <<config, grid, call>>

\* the model follows a further accepted swap
WithinBounds ==
    /\ scene.timers < MaxTimers
    /\ scene.moves > -MaxOverdraft

\* a rainbow that clears the tiles of its own colour
affectedPositions_OwnColor(g, specialPos, otherTile) ==
    IF g[specialPos.y][specialPos.x].special = RAINBOW
    THEN Append(SelectSeq(RowMajor,
                          LAMBDA p : g[p.y][p.x].type = g[specialPos.y][specialPos.x].type
                                     /\ g[p.y][p.x].type # EMPTY),
                specialPos)
    ELSE activateSpecialTile(g, specialPos)

\* handleSpecialTileSwap, affectedPositions
affectedPositions(g, specialPos, otherTile) ==
    IF g[specialPos.y][specialPos.x].special = RAINBOW
    THEN Append(SelectSeq(RowMajor,
                          LAMBDA p : g[p.y][p.x].type = otherTile.type
                                     /\ g[p.y][p.x].type # EMPTY),
                specialPos)
    ELSE activateSpecialTile(g, specialPos)

\* attemptSwap with a special tile: handleSpecialTileSwap up to its await of
\* animateSpecialTileEffect
AttemptSwapSpecial ==
    /\ InputAccepted
    /\ scene.selectedTile # NoTile
    /\ WithinBounds
    /\ \E pos2 \in Positions :
          LET pos1 == scene.selectedTile
              tile1 == grid[pos1.y][pos1.x]
              tile2 == grid[pos2.y][pos2.x]
              specialPos == IF isSpecialTile(tile1) THEN pos1 ELSE pos2
              otherTile == IF isSpecialTile(tile1) THEN tile2 ELSE tile1
          IN  /\ canSwapTiles(pos1, pos2)
              /\ isSpecialTile(tile1) \/ isSpecialTile(tile2)
              /\ scene' = [scene EXCEPT
                    !.isAnimating = TRUE,
                    !.selectedTile = NoTile,
                    !.moves = scene.moves - 1,
                    !.specialActivations = scene.specialActivations + 1,
                    !.resolving = TRUE,
                    !.tasks = Suspend(scene.tasks,
                        Task("animateSpecialTileEffect", << >>,
                             affectedPositions(grid, specialPos, otherTile)))]
    /\ UNCHANGED <<config, grid, call>>

\* attemptSwap of two ordinary tiles that would create no match, up to its
\* await of animateInvalidSwap
AttemptSwapInvalid ==
    /\ InputAccepted
    /\ scene.selectedTile # NoTile
    /\ Cardinality(TasksOf("animateInvalidSwap")) < MaxInvalidSwaps
    /\ {pos2 \in Positions :
          /\ canSwapTiles(scene.selectedTile, pos2)
          /\ ~isSpecialTile(grid[scene.selectedTile.y][scene.selectedTile.x])
          /\ ~isSpecialTile(grid[pos2.y][pos2.x])
          /\ ~wouldCreateMatches(grid, scene.selectedTile, pos2)} # {}
    /\ scene' = [scene EXCEPT
          !.tasks = Suspend(scene.tasks, Task("animateInvalidSwap", << >>, << >>))]
    /\ UNCHANGED <<config, grid, call>>

\* attemptSwap after its await of animateInvalidSwap
InvalidSwapAnimated ==
    /\ \E t \in TasksOf("animateInvalidSwap") :
          scene' = [scene EXCEPT !.tasks = Resume(scene.tasks, t),
                                 !.selectedTile = NoTile]
    /\ UNCHANGED <<config, grid, call>>

\* attemptSwap, valid move, up to its await of animateSwap
AttemptSwapValid ==
    /\ InputAccepted
    /\ scene.selectedTile # NoTile
    /\ WithinBounds
    /\ \E pos2 \in Positions :
          LET pos1 == scene.selectedTile
          IN  /\ canSwapTiles(pos1, pos2)
              /\ ~isSpecialTile(grid[pos1.y][pos1.x])
              /\ ~isSpecialTile(grid[pos2.y][pos2.x])
              /\ wouldCreateMatches(grid, pos1, pos2)
              /\ grid' = swapTiles(grid, pos1, pos2)
    /\ scene' = [scene EXCEPT
          !.isAnimating = TRUE,
          !.selectedTile = NoTile,
          !.moves = scene.moves - 1,
          !.comboCount = 0,
          !.resolving = TRUE,
          !.tasks = Suspend(scene.tasks, Task("animateSwap", << >>, << >>))]
    /\ UNCHANGED <<config, call>>

\* attemptSwap after its await of animateSwap
SwapAnimated ==
    /\ \E t \in TasksOf("animateSwap") :
          scene' = [scene EXCEPT !.tasks = Resume(scene.tasks, t),
                                 !.isAnimating = FALSE,
                                 !.timers = scene.timers + 1]
    /\ UNCHANGED <<config, grid, call>>

\* handleSpecialTileSwap after its await of animateSpecialTileEffect, up to
\* its await of animateFalling (every removed tile has a spawn animation)
SpecialTileEffectAnimated ==
    /\ \E t \in TasksOf("animateSpecialTileEffect") :
          LET removed == removeTilesAtPositions(grid, t.positions)
          IN  /\ \E draw \in [NewCells(removed) -> TILE_TYPES] :
                    grid' = applyGravity(removed,
                        [p \in NewCells(removed) |-> createRandomTile(draw[p], 0)])
              /\ scene' = [scene EXCEPT
                    !.tasks = Suspend(Resume(scene.tasks, t),
                                      Task("animateFallingSpecial", << >>, << >>))]
    /\ UNCHANGED <<config, call>>

\* handleSpecialTileSwap after its await of animateFalling
SpecialFallingAnimated ==
    /\ \E t \in TasksOf("animateFallingSpecial") :
          scene' = [scene EXCEPT !.tasks = Resume(scene.tasks, t),
                                 !.isAnimating = FALSE,
                                 !.timers = scene.timers + 1]
    /\ UNCHANGED <<config, grid, call>>

\* a setTimeout callback runs checkForMatches while isAnimating is set: the
\* call returns at once (the callback of the cascade timer does not even
\* make it)
CheckForMatchesBusy ==
    /\ scene.timers > 0
    /\ scene.isAnimating
    /\ scene' = [scene EXCEPT !.timers = scene.timers - 1]
    /\ UNCHANGED <<config, grid, call>>

\* checkForMatches finds matches: up to its await of animateMatches
CheckForMatchesFound ==
    /\ scene.timers > 0
    /\ ~scene.isAnimating
    /\ \E found \in {findAllMatches(grid)} :
          /\ Len(found) > 0
          /\ \E matches \in {MarkSpecials(found)} :
                \E score \in {calculateScore(matches, scene.comboCount,
                                             scene.specialActivations)} :
                   scene' = [scene EXCEPT
                      !.timers = scene.timers - 1,
                      !.isAnimating = TRUE,
                      !.matchesSinceColorSwap = scene.matchesSinceColorSwap + 1,
                      !.score = Min(scene.score + score, config.targetScore),
                      !.comboCount = Min(scene.comboCount + 1, ComboCap),
                      !.tasks = Suspend(scene.tasks,
                                        Task("animateMatches", matches, << >>))]
    /\ UNCHANGED <<config, grid, call>>

\* checkGameState
checkGameState(status) ==
    IF scene.score >= config.targetScore THEN "levelComplete"
    ELSE IF scene.moves <= 0 /\ ~hasPossibleMoves(grid) THEN "gameOver"
    ELSE IF scene.moves <= 0 THEN "gameOver"
    ELSE status

\* checkForMatches finds no match: the cascade is over
CheckForMatchesNone ==
    /\ scene.timers > 0
    /\ ~scene.isAnimating
    /\ Len(findAllMatches(grid)) = 0
    /\ scene' = [scene EXCEPT
          !.timers = scene.timers - 1,
          !.comboCount = 0,
          !.gameStatus = checkGameState(scene.gameStatus),
          !.resolving = FALSE]
    /\ UNCHANGED <<config, grid, call>>

\* checkForMatches after its await of animateMatches: removeMatches,
\* createSpecialTile, applyGravity, up to its await of animateFalling
MatchesAnimated ==
    /\ \E t \in TasksOf("animateMatches") :
          LET cleared == ClearAndCreate(grid, t.matches)
          IN  /\ \E draw \in [NewCells(cleared) -> TILE_TYPES] :
                    grid' = applyGravity(cleared,
                        [p \in NewCells(cleared) |-> createRandomTile(draw[p], 0)])
              /\ scene' = [scene EXCEPT
                    !.tasks = Suspend(Resume(scene.tasks, t),
                                      Task("animateFalling", << >>, << >>))]
    /\ UNCHANGED <<config, call>>

\* a triggerColorSwap that leaves the counter as it is
FallingAnimatedColorSwap_KeepsCounter ==
    /\ scene.matchesSinceColorSwap >= COLOR_SWAP_THRESHOLD
    /\ \E t \in TasksOf("animateFalling") :
          scene' = [scene EXCEPT
              !.tasks = Suspend(Resume(scene.tasks, t),
                                Task("colorSwapAnnouncement", << >>, << >>))]
    /\ UNCHANGED <<config, grid, call>>

\* checkForMatches after its await of animateFalling, threshold reached:
\* triggerColorSwap up to its announcement tween and one-second timer
FallingAnimatedColorSwap ==
    /\ scene.matchesSinceColorSwap >= COLOR_SWAP_THRESHOLD
    /\ \E t \in TasksOf("animateFalling") :
          scene' = [scene EXCEPT
              !.matchesSinceColorSwap = 0,
              !.tasks = Suspend(Resume(scene.tasks, t),
                                Task("colorSwapAnnouncement", << >>, << >>))]
    /\ UNCHANGED <<config, grid, call>>

\* the end of a checkForMatches iteration: isAnimating and
\* specialActivations are reset and the cascade timer is set
EndIteration(t) ==
    scene' = [scene EXCEPT !.tasks = Resume(scene.tasks, t),
                           !.isAnimating = FALSE,
                           !.specialActivations = 0,
                           !.timers = scene.timers + 1]

\* checkForMatches after its await of animateFalling, threshold not reached
FallingAnimated ==
    /\ scene.matchesSinceColorSwap < COLOR_SWAP_THRESHOLD
    /\ \E t \in TasksOf("animateFalling") : EndIteration(t)
    /\ UNCHANGED <<config, grid, call>>

\* triggerColorSwap, the timer callback after the announcement:
\* shuffleTileColors, up to the end of animateColorSwap and the hiding tween
ColorSwapAnnounced ==
    /\ \E t \in TasksOf("colorSwapAnnouncement") :
          scene' = [scene EXCEPT
              !.tasks = Suspend(Resume(scene.tasks, t),
                                Task("animateColorSwap", << >>, << >>))]
    /\ grid' \in shuffleTileColors(grid)
    /\ UNCHANGED <<config, call>>

\* triggerColorSwap resolves and checkForMatches runs to its end
ColorSwapAnimated ==
    /\ \E t \in TasksOf("animateColorSwap") : EndIteration(t)
    /\ UNCHANGED <<config, grid, call>>

Next ==
    \/ SelectTile
    \/ AttemptSwapNotAdjacent
    \/ AttemptSwapSpecial
    \/ AttemptSwapInvalid
    \/ InvalidSwapAnimated
    \/ AttemptSwapValid
    \/ SwapAnimated
    \/ SpecialTileEffectAnimated
    \/ SpecialFallingAnimated
    \/ CheckForMatchesBusy
    \/ CheckForMatchesFound
    \/ CheckForMatchesNone
    \/ MatchesAnimated
    \/ FallingAnimatedColorSwap
    \/ FallingAnimated
    \/ ColorSwapAnnounced
    \/ ColorSwapAnimated

Spec == Init /\ [][Next]_vars

\* a pending setTimeout callback runs
TimerFires ==
    \/ CheckForMatchesBusy
    \/ CheckForMatchesFound
    \/ CheckForMatchesNone

\* the animation (or announcement delay) that a swap, a special activation
\* or a checkForMatches iteration awaits completes
AnimationCompletes ==
    \/ SwapAnimated
    \/ SpecialTileEffectAnimated
    \/ SpecialFallingAnimated
    \/ MatchesAnimated
    \/ FallingAnimatedColorSwap
    \/ FallingAnimated
    \/ ColorSwapAnnounced
    \/ ColorSwapAnimated

\* every pending timer fires and every animation completes; the player is
\* free never to click again, and nothing is assumed about the random draws
FairSpec ==
    /\ Spec
    /\ WF_vars(TimerFires)
    /\ WF_vars(AnimationCompletes)
    /\ WF_vars(InvalidSwapAnimated)

\* C8: the grid always has exactly gridWidth * gridHeight cells, each holding
\* one tile, and no cell of it is EMPTY: not after a cascade iteration of
\* checkForMatches (removeMatches, createSpecialTile, applyGravity), not
\* after a special activation of handleSpecialTileSwap
\* (removeTilesAtPositions, applyGravity), and so not when the engine is idle.
C8_NoEmptyCell ==
    /\ DOMAIN grid = Ys
    /\ \A y \in Ys : DOMAIN grid[y] = Xs
    /\ Cardinality(Positions) = config.gridWidth * config.gridHeight
    /\ \A p \in Positions :
          /\ grid[p.y][p.x] \in [type : TILE_TYPES \cup {EMPTY},
                                 special : {NoSpecial, BOMB, ROCKET_H, ROCKET_V, RAINBOW},
                                 id : {0}]
          /\ grid[p.y][p.x].type # EMPTY

\* a cascade iteration has just cleared matches and refilled the board after
\* a special activation had cleared and refilled it in the same move
C8_Witness ==
    /\ TasksOf("animateFalling") # {}
    /\ scene.specialActivations > 0

----------------------------------------------------------------------------
(* CascadeSpec: the games of a player who swaps ordinary tiles and leaves  *)
(* the board alone until the cascade of the swap is over.  Every behaviour *)
(* of CascadeSpec is a behaviour of FairSpec.                              *)

\* no swap is being resolved
PlayerWaits == ~scene.resolving /\ scene.timers = 0

PatientSelectTile == PlayerWaits /\ SelectTile

PatientAttemptSwapValid == PlayerWaits /\ AttemptSwapValid

CascadeNext ==
    \/ PatientSelectTile
    \/ PatientAttemptSwapValid
    \/ SwapAnimated
    \/ CheckForMatchesFound
    \/ CheckForMatchesNone
    \/ MatchesAnimated
    \/ FallingAnimatedColorSwap
    \/ FallingAnimated
    \/ ColorSwapAnnounced
    \/ ColorSwapAnimated

\* the level with the column
CascadeInit == Init /\ config.gridWidth = 1

CascadeSpec ==
    /\ CascadeInit
    /\ [][CascadeNext]_vars
    /\ WF_vars(TimerFires)
    /\ WF_vars(AnimationCompletes)

\* C5: the cascade of an accepted swap never continues indefinitely: for
\* every sequence of refills a checkForMatches call eventually finds the
\* board free of matches (the source has no cascade cap and no cap error,
\* so this is the only way a cascade can stop).
C5_CascadeTerminates == scene.resolving ~> ~scene.resolving

----------------------------------------------------------------------------
(* ActivationSpec: the turns of a player who activates the bomb that a run *)
(* of four has left on the board, and who leaves the board alone until the *)
(* pass of the activation is over.  The game is taken up in mid-level, on  *)
(* an idle board (no match on it) that holds a bomb, with the counters of  *)
(* a fresh turn.                                                           *)

ActivationConfigs ==
    {[gridWidth |-> 4, gridHeight |-> 1, tileTypes |-> {"red", "blue"},
      targetScore |-> 200, maxMoves |-> 2]}

ActivationGrids ==
    {g \in GameGrids :
        /\ \E p \in Positions : isSpecialTile(g[p.y][p.x])
        /\ Len(findAllMatches(g)) = 0}

ActivationInit ==
    /\ config \in ActivationConfigs
    /\ grid \in ActivationGrids
    /\ call = NoCall
    /\ scene = [isAnimating |-> FALSE,
                comboCount |-> 0,
                matchesSinceColorSwap |-> 0,
                specialActivations |-> 0,
                score |-> 0,
                moves |-> config.maxMoves,
                gameStatus |-> "playing",
                selectedTile |-> NoTile,
                tasks |-> EmptyBag,
                timers |-> 0,
                resolving |-> FALSE]

PatientAttemptSwapNotAdjacent == PlayerWaits /\ AttemptSwapNotAdjacent

PatientAttemptSwapSpecial == PlayerWaits /\ AttemptSwapSpecial

ActivationNext ==
    \/ PatientSelectTile
    \/ PatientAttemptSwapNotAdjacent
    \/ PatientAttemptSwapSpecial
    \/ SpecialTileEffectAnimated
    \/ SpecialFallingAnimated
    \/ CheckForMatchesFound
    \/ CheckForMatchesNone
    \/ MatchesAnimated
    \/ FallingAnimatedColorSwap
    \/ FallingAnimated
    \/ ColorSwapAnnounced
    \/ ColorSwapAnimated

ActivationSpec == ActivationInit /\ [][ActivationNext]_vars

\* the special activations of the game so far: every accepted swap of
\* ActivationSpec is one
Activations == config.maxMoves - scene.moves

\* C11: when the pass that a special activation started has ended (a
\* checkForMatches call found no match), the flat +150 of every activation
\* so far is in the score, also when the cascade after the activation found
\* no match at all, and no activation is left to be counted in a later turn.
C11_ActivationBonusCounted ==
    ~scene.resolving =>
        /\ scene.specialActivations = 0
        /\ scene.score >= Min(150 * Activations, config.targetScore)

----------------------------------------------------------------------------
(* AchievementManager: the achievements, the set of unlocked ids and the   *)
(* stats; updateStats and checkAchievement.  The manager is the field      *)
(* achievementManager of the scene.                                        *)

\* achievementData: the maxProgress of every achievement
maxProgress ==
    [first_match |-> 1, getting_started |-> 500,
     combo_master_3 |-> 3, combo_master_5 |-> 5, combo_master_10 |-> 10,
     bomb_creator |-> 10, rocket_master |-> 10, rainbow_collector |-> 5,
     high_scorer_1k |-> 1000, high_scorer_5k |-> 5000, high_scorer_10k |-> 10000,
     color_shifter |-> 3, massive_match |-> 1, chain_reaction |-> 7,
     match_veteran |-> 100, dedicated_player |-> 50]

AchievementIds == DOMAIN maxProgress

\* constructor, initializeAchievements
initializeAchievements ==
    [achievements |-> [id \in AchievementIds |-> [unlocked |-> FALSE, progress |-> 0]],
     unlockedAchievements |-> {},
     stats |-> [totalMatches |-> 0, totalGames |-> 0, totalScore |-> 0,
                bestScore |-> 0, longestCombo |-> 0, specialTilesCreated |-> 0,
                bombsExploded |-> 0, rocketsLaunched |-> 0, rainbowsActivated |-> 0,
                perfectSwaps |-> 0, colorSwapsTriggered |-> 0, massiveMatches |-> 0,
                cascadeChains |-> 0]]

\* a check that evaluates unlocked achievements like locked ones
checkAchievement_ReevaluatesUnlocked(am, achievementId, currentValue) ==
    LET progress == Min(currentValue, maxProgress[achievementId])
    IN  IF progress >= maxProgress[achievementId]
        THEN [am |-> [am EXCEPT
                         !.achievements[achievementId] =
                             [unlocked |-> TRUE, progress |-> progress],
                         !.unlockedAchievements = @ \cup {achievementId}],
              returned |-> <<achievementId>>]
        ELSE [am |-> [am EXCEPT !.achievements[achievementId].progress = progress],
              returned |-> << >>]

\* checkAchievement(achievementId, currentValue): the manager after the call
\* and the list it returns (ids stand for the achievement objects)
checkAchievement(am, achievementId, currentValue) ==
    IF \/ achievementId \notin DOMAIN am.achievements
       \/ am.achievements[achievementId].unlocked
       \/ achievementId \in am.unlockedAchievements
    THEN [am |-> am, returned |-> << >>]
    ELSE LET progress == Min(currentValue, maxProgress[achievementId])
         IN  IF progress >= maxProgress[achievementId]
             THEN [am |-> [am EXCEPT
                              !.achievements[achievementId] =
                                  [unlocked |-> TRUE, progress |-> progress],
                              !.unlockedAchievements = @ \cup {achievementId}],
                   returned |-> <<achievementId>>]
             ELSE [am |-> [am EXCEPT !.achievements[achievementId].progress = progress],
                   returned |-> << >>]

\* newlyUnlocked.push(...this.checkAchievement(id, value)) for the checks of
\* one case of updateStats, in their order
RECURSIVE CheckEach(_, _, _, _)
CheckEach(am, checks, i, newlyUnlocked) ==
    IF i > Len(checks) THEN [am |-> am, newlyUnlocked |-> newlyUnlocked]
    ELSE \* the binding keeps the evaluation linear in the number of checks
         Only({CheckEach(r.am, checks, i + 1, newlyUnlocked \o r.returned) :
               r \in {checkAchievement(am, checks[i].id, checks[i].value)}})

Check(id, value) == [id |-> id, value |-> value]

\* updateStats(type, value): the stats after the switch
StatsAfter(stats, type, value) ==
    CASE type = "match" -> [stats EXCEPT !.totalMatches = @ + value]
      [] type = "score" ->
            [stats EXCEPT !.totalScore = value,
                          !.bestScore = IF value > @ THEN value ELSE @]
      [] type = "combo" ->
            [stats EXCEPT !.longestCombo = IF value > @ THEN value ELSE @]
      [] type = "bomb" ->
            [stats EXCEPT !.bombsExploded = @ + 1, !.specialTilesCreated = @ + 1]
      [] type = "rocket" ->
            [stats EXCEPT !.rocketsLaunched = @ + 1, !.specialTilesCreated = @ + 1]
      [] type = "rainbow" ->
            [stats EXCEPT !.rainbowsActivated = @ + 1, !.specialTilesCreated = @ + 1]
      [] type = "colorSwap" -> [stats EXCEPT !.colorSwapsTriggered = @ + 1]
      [] type = "massiveMatch" -> [stats EXCEPT !.massiveMatches = @ + 1]
      [] type = "game" -> [stats EXCEPT !.totalGames = @ + 1]
      [] OTHER -> stats

\* updateStats(type, value): the checkAchievement calls of the case
ChecksOf(stats, type, value) ==
    CASE type = "match" ->
            <<Check("first_match", 1), Check("match_veteran", stats.totalMatches)>>
      [] type = "score" ->
            <<Check("getting_started", value), Check("high_scorer_1k", value),
              Check("high_scorer_5k", value), Check("high_scorer_10k", value)>>
      [] type = "combo" ->
            <<Check("combo_master_3", value), Check("combo_master_5", value),
              Check("combo_master_10", value), Check("chain_reaction", value)>>
      [] type = "bomb" -> <<Check("bomb_creator", stats.bombsExploded)>>
      [] type = "rocket" -> <<Check("rocket_master", stats.rocketsLaunched)>>
      [] type = "rainbow" -> <<Check("rainbow_collector", stats.rainbowsActivated)>>
      [] type = "colorSwap" -> <<Check("color_shifter", stats.colorSwapsTriggered)>>
      [] type = "massiveMatch" -> <<Check("massive_match", stats.massiveMatches)>>
      [] type = "game" -> <<Check("dedicated_player", stats.totalGames)>>
      [] OTHER -> << >>

\* an updateStats that forgets the achievements its checks returned
updateStats_ReturnsNothing(am, type, value) ==
    Only({[r EXCEPT !.newlyUnlocked = << >>] :
          r \in {CheckEach([am EXCEPT !.stats = StatsAfter(am.stats, type, value)],
                           ChecksOf(StatsAfter(am.stats, type, value), type, value),
                           1, << >>)}})

\* updateStats(type, value): the manager after the call and newlyUnlocked
updateStats(am, type, value) ==
    Only({CheckEach([am EXCEPT !.stats = stats], ChecksOf(stats, type, value), 1, << >>) :
          stats \in {StatsAfter(am.stats, type, value)}})

----------------------------------------------------------------------------
(* AchievementSpec: the updateStats calls of a session on a fresh manager  *)

\* the number of events that count up by one which the model follows
MaxCount == 3

\* the sum up to which the model follows the match events
MaxTotalMatches == 100

\* the events of a session: kinds and values
EventValues ==
    [match |-> {50}, score |-> {400, 500, 1000}, combo |-> {2, 3, 7},
     bomb |-> {1}, rocket |-> {1}, rainbow |-> {1}, colorSwap |-> {1},
     massiveMatch |-> {1}, game |-> {1}, perfectSwap |-> {1}]

EventKinds == DOMAIN EventValues

\* the events so far that counted a stat up by one
CountingEvents(stats) ==
    stats.bombsExploded + stats.rocketsLaunched + stats.rainbowsActivated
    + stats.colorSwapsTriggered + stats.massiveMatches + stats.totalGames

CountsUp(type) ==
    type \in {"bomb", "rocket", "rainbow", "colorSwap", "massiveMatch", "game"}

AchievementInit ==
    /\ config = [gridWidth |-> 0, gridHeight |-> 0, tileTypes |-> {}]
    /\ grid = << >>
    /\ call = NoCall
    /\ scene = [gameStatus |-> "none", achievementManager |-> initializeAchievements]

CallUpdateStats ==
    \E type \in EventKinds : \E value \in EventValues[type] :
        /\ type = "match" =>
              scene.achievementManager.stats.totalMatches + value <= MaxTotalMatches
        /\ CountsUp(type) => CountingEvents(scene.achievementManager.stats) < MaxCount
        /\ \E r \in {updateStats(scene.achievementManager, type, value)} :
              /\ scene' = [scene EXCEPT !.achievementManager = r.am]
              /\ call' = [op |-> "updateStats", type |-> type, value |-> value,
                          newlyUnlocked |-> r.newlyUnlocked]
        /\ UNCHANGED <<config, grid>>

AchievementNext == CallUpdateStats

AchievementSpec == AchievementInit /\ [][AchievementNext]_vars

\* C13: once the unlocked flag of an achievement is true, no later
\* updateStats call returns the achievement in its list of newly unlocked
\* achievements, the flag stays true and the progress never decreases.
C13_UnlockedIsFinal ==
    [][\A id \in AchievementIds :
          scene.achievementManager.achievements[id].unlocked =>
              /\ scene'.achievementManager.achievements[id].unlocked
              /\ scene'.achievementManager.achievements[id].progress
                    >= scene.achievementManager.achievements[id].progress
              /\ id \notin Range(call'.newlyUnlocked)]_vars

\* a score event of 400 points on a manager that has unlocked
\* getting_started (500 points) and keeps it at its full progress
C13_Witness ==
    /\ call.op = "updateStats"
    /\ call.type = "score"
    /\ call.value = 400
    /\ scene.achievementManager.achievements["getting_started"].unlocked
    /\ scene.achievementManager.achievements["getting_started"].progress = 500
    /\ call.newlyUnlocked = << >>

\* C14: the progress of every achievement, locked or unlocked, is a ratchet:
\* no updateStats call of a session, whatever its event kind and value (a
\* combo or score event with a lower value than an earlier one included),
\* decreases the progress of an achievement.
C14_ProgressRatchet ==
    [][\A id \in AchievementIds :
          scene'.achievementManager.achievements[id].progress
              >= scene.achievementManager.achievements[id].progress]_vars

\* C15: after any sequence of updateStats calls on a fresh manager the
\* progress of every achievement is at most its maxProgress, an achievement
\* is unlocked exactly if its progress has reached maxProgress, and a call
\* returns an achievement exactly if the call changed its unlocked flag from
\* false to true, and then once.
C15_ClampedUnlockedReturned ==
    /\ [](\A id \in AchievementIds :
            LET achievement == scene.achievementManager.achievements[id]
            IN  /\ achievement.progress <= maxProgress[id]
                /\ achievement.unlocked <=> achievement.progress >= maxProgress[id]
                /\ achievement.unlocked <=> id \in scene.achievementManager.unlockedAchievements)
    /\ [][\A id \in AchievementIds :
            /\ id \in Range(call'.newlyUnlocked)
                 <=> /\ ~scene.achievementManager.achievements[id].unlocked
                     /\ scene'.achievementManager.achievements[id].unlocked
            /\ Cardinality({i \in DOMAIN call'.newlyUnlocked :
                               call'.newlyUnlocked[i] = id}) <= 1]_vars

\* a call that unlocked two achievements and left a third one half way
C15_Witness ==
    /\ call.op = "updateStats"
    /\ call.type = "score"
    /\ call.value = 1000
    /\ call.newlyUnlocked = <<"getting_started", "high_scorer_1k">>
    /\ scene.achievementManager.achievements["high_scorer_5k"]
          = [unlocked |-> FALSE, progress |-> 1000]

----------------------------------------------------------------------------
(* IntersectionSpec: one iteration of checkForMatches on boards whose runs *)
(* cross: every board of a 3x3 level with two colours, and the boards of a *)
(* 5x4 level with three colours that hold one red row crossed by a red run *)
(* in a column on a background without runs.                               *)

IntersectionConfigs ==
    {[gridWidth |-> 3, gridHeight |-> 3, tileTypes |-> {"red", "blue"}],
     [gridWidth |-> 5, gridHeight |-> 4, tileTypes |-> {"red", "blue", "green"}]}

\* the intervals of at least MIN_MATCH_LENGTH rows
RowIntervals ==
    {a .. b : a \in Ys, b \in Ys} \ {rows \in SUBSET Ys : Cardinality(rows) < MIN_MATCH_LENGTH}

CrossGrids ==
    {[y \in Ys |-> [x \in Xs |->
        Tile(IF y = r \/ (x = c /\ y \in rows) THEN "red"
             ELSE IF (x + y) % 2 = 0 THEN "blue" ELSE "green",
             NoSpecial, 0)]] :
     r \in Ys, c \in Xs, rows \in RowIntervals}

IntersectionInit ==
    /\ config \in IntersectionConfigs
    /\ grid \in (IF "green" \in TILE_TYPES THEN CrossGrids ELSE PlainGrids(TILE_TYPES))
    /\ call = NoCall
    /\ scene = NoScene

IntersectionNext == CallCheckForMatchesIteration

IntersectionSpec == IntersectionInit /\ [][IntersectionNext]_vars

\* the positions that a horizontal and a vertical match of the list share
SharedPositions(matches) ==
    {p \in Positions :
        \E i \in DOMAIN matches, j \in DOMAIN matches :
            /\ matches[i].direction = "horizontal"
            /\ matches[j].direction = "vertical"
            /\ p \in Range(matches[i].tiles)
            /\ p \in Range(matches[j].tiles)}

\* C16: when the matches of a cascade iteration contain a horizontal and a
\* vertical match that share a position (an L or T intersection), the
\* iteration creates a rainbow tile at the shared position, whatever the
\* length rules say for that position.
C16_RainbowAtIntersection ==
    call.op = "checkForMatches" =>
        \A p \in SharedPositions(call.matches) :
            call.created[p.y][p.x].special = RAINBOW

\* the special tiles that the length rules designate for a position: a
\* rocket for the middle of a run of five or more, a bomb for the middle of
\* a run of four
DesignatedAt(matches, p) ==
    {detectSpecialTileCreation(matches[i]).special :
        i \in {j \in DOMAIN matches :
                  /\ detectSpecialTileCreation(matches[j]) # NoSpecialInfo
                  /\ detectSpecialTileCreation(matches[j]).position = p}}

IsRocket(special) == special \in {ROCKET_H, ROCKET_V}

\* C17: a cascade iteration creates at most one special tile per position,
\* and where several creation rules designate the same position the special
\* tile left there is chosen by priority (rainbow, then rocket, then bomb),
\* not by the order in which the matches were detected: a position that is
\* the middle of a run of five and of a run of four is left with a rocket.
C17_CreationPriority ==
    call.op = "checkForMatches" =>
        \A p \in Positions :
            LET designated == DesignatedAt(call.matches, p)
                special == call.created[p.y][p.x].special
            IN  /\ designated = {} => special = NoSpecial
                /\ designated # {} =>
                      IF RAINBOW \in designated THEN special = RAINBOW
                      ELSE IF \E d \in designated : IsRocket(d)
                      THEN IsRocket(special) /\ special \in designated
                      ELSE special = BOMB

----------------------------------------------------------------------------
(* ActivateSpec: activateSpecialTile called for every position, on and off *)
(* the board, of boards that hold at most one special tile                 *)

ActivateConfigs ==
    {[gridWidth |-> 3, gridHeight |-> 3, tileTypes |-> {"red"}],
     [gridWidth |-> 4, gridHeight |-> 2, tileTypes |-> {"red"}]}

\* the positions of the board and those next to it
CalledPositions == {Pos(x, y) : x \in -1 .. GRID_WIDTH, y \in -1 .. GRID_HEIGHT}

ActivateGrids ==
    {[y \in Ys |-> [x \in Xs |->
        Tile("red", IF Pos(x, y) = p THEN special ELSE NoSpecial, 0)]] :
     p \in Positions, special \in {NoSpecial, BOMB, ROCKET_H, ROCKET_V, RAINBOW}}

ActivateInit ==
    /\ config \in ActivateConfigs
    /\ grid \in ActivateGrids
    /\ call = NoCall
    /\ scene = NoScene

CallActivateSpecialTile ==
    /\ call.op = "none"
    /\ \E position \in CalledPositions :
          call' = [op |-> "activateSpecialTile", position |-> position,
                   affectedPositions |-> activateSpecialTile(grid, position)]
    /\ UNCHANGED <<config, grid, scene>>

ActivateNext == CallActivateSpecialTile

ActivateSpec == ActivateInit /\ [][ActivateNext]_vars

\* the special effect of the tile at a position, NoSpecial off the board
SpecialAt(g, p) == IF p \in Positions THEN g[p.y][p.x].special ELSE NoSpecial

OnBorderX(p) == p.x \in {0, GRID_WIDTH - 1}

OnBorderY(p) == p.y \in {0, GRID_HEIGHT - 1}

\* C18: activateSpecialTile returns exactly the positions to clear, none of
\* them off the board and none twice: for a bomb at p the positions of the
\* board with |dx| <= 1 and |dy| <= 1 (9 in the interior, 6 on an edge, 4 in
\* a corner), for a row rocket the row of p, for a column rocket the column
\* of p, and the empty list when the tile at p is not special.
C18_ActivationPositions ==
    call.op = "activateSpecialTile" =>
        LET p == call.position
            affected == call.affectedPositions
            special == SpecialAt(grid, p)
        IN  /\ Range(affected) \subseteq Positions
            /\ Cardinality(Range(affected)) = Len(affected)
            /\ special = NoSpecial => affected = << >>
            /\ special = BOMB =>
                  /\ Range(affected)
                        = {q \in Positions : Abs(q.x - p.x) <= 1 /\ Abs(q.y - p.y) <= 1}
                  /\ Len(affected) = CASE OnBorderX(p) /\ OnBorderY(p) -> 4
                                        [] ~OnBorderX(p) /\ ~OnBorderY(p) -> 9
                                        [] OTHER -> 6
            /\ special = ROCKET_H => Range(affected) = {q \in Positions : q.y = p.y}
            /\ special = ROCKET_V => Range(affected) = {q \in Positions : q.x = p.x}

\* a bomb in a corner of the board: four positions
C18_Witness ==
    /\ call.op = "activateSpecialTile"
    /\ call.position = Pos(0, 0)
    /\ grid[0][0].special = BOMB
    /\ Len(call.affectedPositions) = 4

----------------------------------------------------------------------------
(* RainbowSpec: the turns of a patient player on an idle board that holds  *)
(* one rainbow tile among ordinary tiles, as createSpecialTile leaves it   *)
(* when it is called with SpecialTileEffect.RAINBOW.                       *)

RainbowConfigs ==
    {[gridWidth |-> 3, gridHeight |-> 2, tileTypes |-> {"red", "blue"},
      targetScore |-> 200, maxMoves |-> 1]}

RainbowGrids ==
    {[g EXCEPT ![p.y][p.x].special = RAINBOW] :
        g \in {b \in PlainGrids(TILE_TYPES) : Len(findAllMatches(b)) = 0},
        p \in Positions}

RainbowInit ==
    /\ config \in RainbowConfigs
    /\ grid \in RainbowGrids
    /\ call = NoCall
    /\ scene = [isAnimating |-> FALSE,
                comboCount |-> 0,
                matchesSinceColorSwap |-> 0,
                specialActivations |-> 0,
                score |-> 0,
                moves |-> config.maxMoves,
                gameStatus |-> "playing",
                selectedTile |-> NoTile,
                tasks |-> EmptyBag,
                timers |-> 0,
                resolving |-> FALSE]

RainbowSpec == RainbowInit /\ [][ActivationNext]_vars

----------------------------------------------------------------------------
\* C20: no swap, ordinary or special, is accepted while the pass of an
\* earlier swap is in progress: from the moment attemptSwap or
\* handleSpecialTileSwap has accepted a swap (moves is counted down) until a
\* checkForMatches call finds no match, under every interleaving of pointer
\* events and timer callbacks, no further swap is accepted.
C20_NoSwapDuringPass ==
    [][scene'.moves < scene.moves => ~scene.resolving]_vars

----------------------------------------------------------------------------
(* The colour-swap counter and the combo counter                           *)

\* C21: matchesSinceColorSwap counts only the iteration that the player's
\* swap causes directly: a checkForMatches iteration increments the counter
\* only if it is the first of its pass, that is, only if no iteration of the
\* pass has found a match before it (comboCount is 0: attemptSwap has reset
\* it and only an iteration that finds a match raises it).  Iterations after
\* gravity and refill, and after the repair of a colour swap, do not.
C21_CounterCountsFirstIterationOnly ==
    [][scene'.matchesSinceColorSwap > scene.matchesSinceColorSwap
          => scene.comboCount = 0]_vars

\* the async method of the scene that is suspended at the await named kind
Awaits(s, kind) == \E t \in BagToSet(s.tasks) : t.kind = kind

\* C22: the colour swap fires exactly when the counter has reached 3, and
\* the counter is reset to 0 at that moment: the counter is always within
\* 0 .. 3 and below 3 whenever the engine is not animating; and when a
\* checkForMatches iteration comes back from animateFalling, it calls
\* triggerColorSwap if and only if the counter is 3, and the call leaves the
\* counter at 0.
C22_ColorSwapAtThreshold ==
    /\ [](/\ scene.matchesSinceColorSwap \in 0 .. 3
          /\ ~scene.isAnimating => scene.matchesSinceColorSwap < 3)
    /\ [][(Awaits(scene, "animateFalling") /\ ~Awaits(scene', "animateFalling"))
             => /\ Awaits(scene', "colorSwapAnnouncement")
                       <=> scene.matchesSinceColorSwap = 3
                /\ Awaits(scene', "colorSwapAnnouncement")
                       => scene'.matchesSinceColorSwap = 0]_vars

\* the third match since the last colour swap has been cleared and the
\* colour swap has been announced
C22_Witness ==
    /\ Awaits(scene, "colorSwapAnnouncement")
    /\ scene.matchesSinceColorSwap = 0

\* C23: comboCount is 0 when a pass starts (when a swap is accepted and
\* charged its move); an iteration of checkForMatches that finds a match
\* scores its matches with the comboCount it finds and then raises it by
\* one (the model records it up to ComboCap), so that the k-th iteration of
\* a pass is scored with depth k; the iteration that finds no match resets
\* it; and it is 0 whenever the engine is idle with no cascade pending.
C23_ComboDepth ==
    /\ []((~scene.isAnimating /\ scene.timers = 0) => scene.comboCount = 0)
    /\ [][scene'.moves < scene.moves => scene'.comboCount = 0]_vars
    /\ [][(Awaits(scene', "animateMatches") /\ ~Awaits(scene, "animateMatches"))
             => /\ scene'.comboCount = Min(scene.comboCount + 1, ComboCap)
                /\ scene'.score =
                       Min(scene.score
                             + calculateScore(MarkSpecials(findAllMatches(grid)),
                                              scene.comboCount,
                                              scene.specialActivations),
                           config.targetScore)]_vars
    /\ [][(scene.resolving /\ ~scene'.resolving) => scene'.comboCount = 0]_vars

----------------------------------------------------------------------------
(* swapTiles and wouldCreateMatches on tile objects.  A grid of the source *)
(* is an array of arrays of references to tile objects; here the objects   *)
(* are the elements of a heap (a sequence of tile records with their       *)
(* stored x and y), a reference is an index into the heap, and a grid is   *)
(* a matrix of references.  Every operation returns the heap it leaves.    *)

\* the tile objects a grid of references refers to
Deref(heap, refs) == [y \in Ys |-> [x \in Xs |-> heap[refs[y][x]]]]

\* the reference of the copy that cloneGrid makes of the tile at (x, y)
CopyRef(heap, x, y) == Len(heap) + y * GRID_WIDTH + x + 1

\* a clone that copies the rows and shares the tile objects
cloneGrid_SharesTiles(heap, refs) ==
    [heap |-> heap, grid |-> refs]

\* grid.map(row => row.map(tile => ({ ...tile }))): a new object for every
\* cell, with the fields of the tile the cell refers to
cloneGrid(heap, refs) ==
    [heap |-> heap \o [i \in 1 .. (GRID_WIDTH * GRID_HEIGHT) |->
                          heap[refs[RowMajor[i].y][RowMajor[i].x]]],
     grid |-> [y \in Ys |-> [x \in Xs |-> CopyRef(heap, x, y)]]]

\* swapTiles, statement by statement: the four assignments to the stored
\* positions, then the two assignments to the cells
swapTilesOnHeap(heap, refs, pos1, pos2) ==
    IF ~isValidPosition(pos1) \/ ~isValidPosition(pos2)
    THEN [heap |-> heap, grid |-> refs]
    ELSE LET newGrid == cloneGrid(heap, refs)
             tile1 == newGrid.grid[pos1.y][pos1.x]
             tile2 == newGrid.grid[pos2.y][pos2.x]
             h1 == [newGrid.heap EXCEPT ![tile1].x = pos2.x]
             h2 == [h1 EXCEPT ![tile1].y = pos2.y]
             h3 == [h2 EXCEPT ![tile2].x = pos1.x]
             h4 == [h3 EXCEPT ![tile2].y = pos1.y]
             g1 == [newGrid.grid EXCEPT ![pos1.y][pos1.x] = tile2]
             g2 == [g1 EXCEPT ![pos2.y][pos2.x] = tile1]
         IN  [heap |-> h4, grid |-> g2]

\* wouldCreateMatches: the heap it leaves and the value it returns
wouldCreateMatchesOnHeap(heap, refs, pos1, pos2) ==
    LET testGrid == swapTilesOnHeap(heap, refs, pos1, pos2)
        matches == findAllMatches(Deref(testGrid.heap, testGrid.grid))
    IN  [heap |-> testGrid.heap, returned |-> Len(matches) > 0]

----------------------------------------------------------------------------
(* SwapSpec: one call of swapTiles or of wouldCreateMatches, for two       *)
(* positions on or next to the board, on a board of the caller             *)

SwapConfigs ==
    {[gridWidth |-> 3, gridHeight |-> 2, tileTypes |-> {"red", "blue"}]}

\* the caller's board: a tile object for every cell, with the position of
\* the cell stored in it; the tile at the origin may be a bomb
SwapHeaps ==
    {[i \in 1 .. (GRID_WIDTH * GRID_HEIGHT) |->
         [type |-> g[RowMajor[i].y][RowMajor[i].x].type,
          special |-> IF i = 1 THEN special ELSE NoSpecial,
          id |-> i,
          x |-> RowMajor[i].x,
          y |-> RowMajor[i].y]] :
     g \in PlainGrids(TILE_TYPES), special \in {NoSpecial, BOMB}}

SwapInit ==
    /\ config \in SwapConfigs
    /\ grid = [y \in Ys |-> [x \in Xs |-> y * GRID_WIDTH + x + 1]]
    /\ \E heap \in SwapHeaps : call = [op |-> "none", heap |-> heap]
    /\ scene = NoScene

CallSwapTiles ==
    /\ call.op = "none"
    /\ \E pos1 \in CalledPositions, pos2 \in CalledPositions :
          \E result \in {swapTilesOnHeap(call.heap, grid, pos1, pos2)} :
             call' = [op |-> "swapTiles", pos1 |-> pos1, pos2 |-> pos2,
                      before |-> call.heap, heap |-> result.heap,
                      returned |-> result.grid]
    /\ UNCHANGED <<config, grid, scene>>

CallWouldCreateMatches ==
    /\ call.op = "none"
    /\ \E pos1 \in CalledPositions, pos2 \in CalledPositions :
          \E result \in {wouldCreateMatchesOnHeap(call.heap, grid, pos1, pos2)} :
             call' = [op |-> "wouldCreateMatches", pos1 |-> pos1, pos2 |-> pos2,
                      before |-> call.heap, heap |-> result.heap,
                      returned |-> result.returned]
    /\ UNCHANGED <<config, grid, scene>>

SwapNext ==
    \/ CallSwapTiles
    \/ CallWouldCreateMatches

SwapSpec == SwapInit /\ [][SwapNext]_vars

\* the caller's tile objects are what they were before the call
CallerTilesKept ==
    \A ref \in 1 .. Len(call.before) : call.heap[ref] = call.before[ref]

\* the tiles of a board without their stored positions
Faces(g) ==
    [y \in Ys |-> [x \in Xs |->
        [type |-> g[y][x].type, special |-> g[y][x].special, id |-> g[y][x].id]]]

\* C24: wouldCreateMatches leaves the caller's grid as it was (every cell
\* refers to the same tile object, and every tile object of the caller has
\* its type, special kind and stored x and y), and for two adjacent
\* positions on the board it returns true if and only if findAllMatches
\* finds a match on the board with the tiles at the two positions exchanged.
\* The board swapTiles returns is that exchanged board, with the stored
\* positions of the two tiles exchanged too, and it too leaves the caller's
\* tiles alone.
C24_WouldCreateMatchesIsPure ==
    /\ call.op \in {"swapTiles", "wouldCreateMatches"} =>
          /\ CallerTilesKept
          /\ grid = [y \in Ys |-> [x \in Xs |-> y * GRID_WIDTH + x + 1]]
    /\ (/\ call.op = "wouldCreateMatches"
        /\ isValidPosition(call.pos1) /\ isValidPosition(call.pos2)
        /\ canSwapTiles(call.pos1, call.pos2)) =>
          (call.returned <=>
              Len(findAllMatches(swapTiles(Deref(call.before, grid),
                                           call.pos1, call.pos2))) > 0)
    /\ (/\ call.op = "swapTiles"
        /\ isValidPosition(call.pos1) /\ isValidPosition(call.pos2)) =>
          /\ Faces(Deref(call.heap, call.returned))
                = swapTiles(Faces(Deref(call.before, grid)), call.pos1, call.pos2)
          /\ \A p \in Positions :
                /\ call.heap[call.returned[p.y][p.x]].x = p.x
                /\ call.heap[call.returned[p.y][p.x]].y = p.y

\* a swap of two adjacent tiles that would make a run on a board without one
C24_Witness ==
    /\ call.op = "wouldCreateMatches"
    /\ isValidPosition(call.pos1) /\ isValidPosition(call.pos2)
    /\ canSwapTiles(call.pos1, call.pos2)
    /\ call.returned
    /\ Len(findAllMatches(Deref(call.before, grid))) = 0

\* C25: for two positions that are not orthogonally adjacent, or of which
\* one is off the board, swapTiles returns the caller's board unchanged and
\* wouldCreateMatches returns false, whatever the board holds.
C25_InvalidSwapRejected ==
    (/\ call.op \in {"swapTiles", "wouldCreateMatches"}
     /\ \/ ~canSwapTiles(call.pos1, call.pos2)
        \/ ~isValidPosition(call.pos1)
        \/ ~isValidPosition(call.pos2)) =>
        /\ call.op = "swapTiles" =>
              Deref(call.heap, call.returned) = Deref(call.before, grid)
        /\ call.op = "wouldCreateMatches" => call.returned = FALSE

----------------------------------------------------------------------------
(* The repair loop ends                                                    *)

InRepairLoop ==
    call.op \in {"initializeGrid", "shuffleTileColors"} /\ call.pc = "loop"

\* C26: removeInitialMatches makes at most maxAttempts = 50 detections,
\* whatever the draws: every iteration of its loop counts one attempt and
\* the count never passes 50, so the loop is left after 50 iterations at
\* the latest.  The board that initializeGrid or shuffleTileColors then
\* returns holds a palette colour in every cell, and holds no match if the
\* last detection found none.
C26_RepairTerminates ==
    /\ [](InRepairLoop => call.attempts \in 0 .. maxAttempts)
    /\ [][(InRepairLoop /\ call'.pc = "loop")
             => call'.attempts = call.attempts + 1]_vars
    /\ [](Returned =>
             /\ call.attempts <= maxAttempts
             /\ DOMAIN grid = Ys
             /\ \A p \in Positions : grid[p.y][p.x].type \in TILE_TYPES
             /\ ~call.hasMatches => ~HasRun(grid))

\* the board is returned with a match after the last of the 50 attempts
C26_Witness ==
    /\ Returned
    /\ call.attempts = maxAttempts
    /\ call.hasMatches
    /\ HasRun(grid)

----------------------------------------------------------------------------
(* isAnimating as the lock of the grid                                     *)

\* the awaits inside the sections that run with isAnimating set: of the
\* commit section of attemptSwap, of handleSpecialTileSwap, and of an
\* iteration of checkForMatches with triggerColorSwap
LockedAwaits ==
    {"animateSwap", "animateSpecialTileEffect", "animateFallingSpecial",
     "animateMatches", "animateFalling", "colorSwapAnnouncement",
     "animateColorSwap"}

\* the number of handlers that are between setting isAnimating and
\* resetting it
InSection ==
    BagCardinality([t \in {u \in BagToSet(scene.tasks) : u.kind \in LockedAwaits}
                       |-> CopiesIn(t, scene.tasks)])

\* C27: under every interleaving of clicks, animation completions and timer
\* callbacks at most one handler is between setting isAnimating = true and
\* resetting it, isAnimating is set exactly while one is, and the grid
\* changes only in a step of that handler (or in the step with which a swap
\* enters its section).
C27_GridMutualExclusion ==
    /\ [](/\ InSection <= 1
          /\ scene.isAnimating <=> InSection = 1)
    /\ [][grid' # grid =>
             \/ InSection = 1 /\ scene.isAnimating
             \/ InSection = 0 /\ ~scene.isAnimating /\ Awaits(scene', "animateSwap")]_vars

\* a handler is in its section while a checkForMatches timer is pending and
\* the player has a tile selected
C27_Witness ==
    /\ InSection = 1
    /\ scene.timers > 0
    /\ scene.selectedTile # NoTile
    /\ Awaits(scene, "animateMatches")

----------------------------------------------------------------------------
(* The moves counter and the end of the level                              *)

\* C28: gameState.moves is never negative: under every interleaving of
\* clicks with the pending cascade timers no swap, ordinary or special, is
\* accepted and charged a move once moves has reached 0.
C28_MovesNeverNegative == scene.moves >= 0

\* C29: the game is never stuck in status 'playing': when the pass of a
\* swap has ended (the engine is idle, no timer pending) with status
\* 'playing' and moves left, the board admits a swap that attemptSwap
\* accepts: a swap that creates a match, or a swap with a special tile.
C29_NeverStuck ==
    (/\ ~scene.isAnimating /\ scene.timers = 0 /\ ~scene.resolving
     /\ scene.moves < config.maxMoves
     /\ scene.gameStatus = "playing"
     /\ scene.moves > 0) =>
        \/ hasPossibleMoves(grid)
        \/ \E p \in Positions : isSpecialTile(grid[p.y][p.x])

----------------------------------------------------------------------------
(* GameUtils.findMatches, the match detector of the client utilities       *)

\* One start cell of either scan loop of findMatches: acc is
\* [matches, checked], matchTiles the tiles collected from the start cell
\* (each tile stores the position of its cell, by which it is marked).
FindMatchesStep(g, acc, start, matchTiles, type) ==
    IF start \in acc.checked \/ g[start.y][start.x].type = EMPTY THEN acc
    ELSE IF Len(matchTiles) >= 3
         THEN [matches |-> Append(acc.matches,
                              [tiles |-> matchTiles, type |-> type,
                               length |-> Len(matchTiles)]),
               checked |-> acc.checked \cup Range(matchTiles)]
         ELSE acc

\* for (y = 0 .. height-1) for (x = 0 .. width-3)
RECURSIVE FindHorizontal(_, _, _)
FindHorizontal(g, i, acc) ==
    IF i > Len(HorizontalStarts) THEN acc
    ELSE Only({FindHorizontal(g, i + 1, next) :
               next \in {FindMatchesStep(g, acc, HorizontalStarts[i],
                             HorizontalRun(g, HorizontalStarts[i].x,
                                           HorizontalStarts[i].y),
                             "horizontal")}})

\* for (x = 0 .. width-1) for (y = 0 .. height-3)
RECURSIVE FindVertical(_, _, _)
FindVertical(g, i, acc) ==
    IF i > Len(VerticalStarts) THEN acc
    ELSE Only({FindVertical(g, i + 1, next) :
               next \in {FindMatchesStep(g, acc, VerticalStarts[i],
                             VerticalRun(g, VerticalStarts[i].x,
                                         VerticalStarts[i].y),
                             "vertical")}})

findMatches(g) ==
    Only({FindVertical(g, 1, horizontal).matches :
          horizontal \in {FindHorizontal(g, 1, [matches |-> << >>,
                                                checked |-> {}])}})

----------------------------------------------------------------------------
(* DetectorSpec: both detectors applied to every board of plain tiles and  *)
(* cleared cells                                                           *)

DetectorConfigs ==
    {[gridWidth |-> 3, gridHeight |-> 3, tileTypes |-> {"red", "blue"}],
     [gridWidth |-> 4, gridHeight |-> 3, tileTypes |-> {"red"}]}

DetectorInit ==
    /\ config \in DetectorConfigs
    /\ grid \in PlainGrids(TILE_TYPES \cup {EMPTY})
    /\ call = NoCall
    /\ scene = NoScene

CallFindMatches ==
    /\ call.op = "none"
    /\ call' = [op |-> "findMatches", matches |-> findMatches(grid)]
    /\ UNCHANGED <<config, grid, scene>>

DetectorNext ==
    \/ CallFindMatches
    \/ CallFindAllMatches

DetectorSpec == DetectorInit /\ [][DetectorNext]_vars

\* every tile that lies in a horizontal or vertical run of at least three
\* equal non-empty colours
RunTiles(g) ==
    UNION {Range(r) : r \in MaximalHorizontalRuns(g) \cup MaximalVerticalRuns(g)}

\* C30: the two detectors agree: on every board the positions covered by
\* the matches of GameUtils.findMatches are the positions covered by the
\* matches of GameLogic.findAllMatches, namely the tiles that lie in a
\* horizontal or vertical run of at least three equal non-empty colours,
\* those of a vertical run that shares tiles with a horizontal run included.
C30_DetectorsAgree ==
    /\ call.op = "findAllMatches" =>
          MatchedPositions(call.matches) = RunTiles(grid)
    /\ call.op = "findMatches" =>
          /\ MatchedPositions(call.matches) = MatchedPositions(findAllMatches(grid))
          /\ MatchedPositions(call.matches) = RunTiles(grid)

====
